---- MODULE Spec2Model ----
(***************************************************************************)
(* A model of mmagic's BaseTranslationModel                                *)
(* (mmagic/models/base_models/base_translation_model.py) and of the MMEdit *)
(* model catalog front-end (mmedit/edit.py).                               *)
(*                                                                         *)
(* Spec      : one BaseTranslationModel object, from construction on.      *)
(* SpecEdit  : MMEdit construction and _get_inferencer_kwargs.             *)
(*                                                                         *)
(* Python's assert statements are modelled as active (the interpreter's    *)
(* default mode).  Collaborators (the module registry, the generator and   *)
(* discriminator networks) are modelled by what this code hands them and   *)
(* takes from them; they do not raise.                                     *)
(***************************************************************************)
EXTENDS Naturals, Sequences, FiniteSets, TLC

VARIABLES
    constructed,         \* "none" | "ok" | "failed": how __init__ ended
    default_domain,      \* self._default_domain
    reachable_domains,   \* self._reachable_domains (a list)
    related_domains,     \* self._related_domains (a list)
    generators,          \* self.generators
    discriminators,      \* self.discriminators
    built,               \* the configs handed to MODELS.build, in order
    params_init_info,    \* the modules that have the attribute _params_init_info
    pc,                  \* position of a running init_weights call
    idx,                 \* position of init_weights' loop in reachable_domains
    ret,                 \* the last call on the model: what, with what, outcome
    inferencer,          \* MMEdit.inferencer
    eret                 \* the last call on MMEdit: what, with what, outcome

tvars == <<constructed, default_domain, reachable_domains, related_domains,
           generators, discriminators, built, params_init_info, pc, idx, ret>>
evars == <<inferencer, eret>>
vars == <<constructed, default_domain, reachable_domains, related_domains,
          generators, discriminators, built, params_init_info, pc, idx, ret,
          inferencer, eret>>

----------------------------------------------------------------------------
(* Bounds and input universes *)

\* longest reachable_domains / related_domains list handed to __init__
MaxLen == 2

\* the domain names the lists handed to __init__ are drawn from
ListDomains == {"A", "B"}
\* the domain names callers ask about: "C" is a domain no model knows
DomainNames == ListDomains \cup {"C"}
None == "None"
Devices == {"cuda", "cpu"}
Images == [data : {"img"}, device : Devices]
Kwargs == {"no_kwargs", "kw1"}
GenCfg == "generator_cfg"
DiscCfg == "discriminator_cfg"

SeqsUpTo(S, n) == UNION {[1..k -> S] : k \in 0..n}
Range(s) == {s[i] : i \in DOMAIN s}

----------------------------------------------------------------------------
(* Values *)

\* nn.ModuleDict()
ModuleDict(items) == [kind |-> "ModuleDict", items |-> items]
\* a distributed wrapper around a module (what is_model_wrapper recognises)
Wrapper(module) == [kind |-> "Wrapper", module |-> module]
NoneModule == [kind |-> "None"]

NoMsg == [domain |-> None, available |-> <<>>]
NoValue == <<>>
Returned(value, invoked) ==
    [outcome |-> "ok", value |-> value, msg |-> NoMsg, invoked |-> invoked]
Raised(kind, msg) ==
    [outcome |-> kind, value |-> NoValue, msg |-> msg, invoked |-> <<>>]
Call(op, args, r) ==
    [op |-> op, args |-> args, outcome |-> r.outcome, value |-> r.value,
     msg |-> r.msg, invoked |-> r.invoked]
NoCall == Call("none", <<>>, Returned(NoValue, <<>>))

\* module identities, as self.modules() walks them
SelfModule == [kind |-> "self", id |-> 0]
Container(name) == [kind |-> name, id |-> 0]
Instance(i) == [kind |-> "instance", id |-> i]
\* the submodule nested in a built network
Nested(i) == [kind |-> "nested", id |-> i]

----------------------------------------------------------------------------
(* BaseTranslationModel *)

BuildAllShared(domains, first) == [d \in Range(domains) |-> first]
\* the id of the instance the i-th MODELS.build call returns
\* for domain in self._reachable_domains: d[domain] = MODELS.build(cfg)
BuildAll(domains, first) ==
    [d \in Range(domains) |->
        first + (CHOOSE i \in DOMAIN domains :
                    /\ domains[i] = d
                    /\ \A j \in DOMAIN domains : domains[j] = d => j <= i) - 1]

\* the two assert statements of __init__
InitAssertsMissingSubset(dd, reach, rel) == dd \in Range(reach)
InitAsserts(dd, reach, rel) ==
    /\ dd \in Range(reach)
    /\ Range(reach) \subseteq Range(rel)

\* __init__
Construct(discriminator, dd, reach, rel) ==
    /\ constructed = "none"
    /\ default_domain' = dd
    /\ reachable_domains' = reach
    /\ related_domains' = rel
    /\ IF InitAsserts(dd, reach, rel)
       THEN /\ constructed' = "ok"
            /\ generators' = ModuleDict(BuildAll(reach, 1))
            /\ IF discriminator # None
               THEN /\ discriminators' =
                          ModuleDict(BuildAll(reach, Len(reach) + 1))
                    /\ built' = [i \in 1..Len(reach) |-> GenCfg]
                                \o [i \in 1..Len(reach) |-> discriminator]
               ELSE /\ discriminators' = NoneModule
                    /\ built' = [i \in 1..Len(reach) |-> GenCfg]
       ELSE /\ constructed' = "failed"
            /\ UNCHANGED <<generators, discriminators, built>>
    /\ UNCHANGED <<params_init_info, pc, idx, ret>>
    /\ UNCHANGED evars

is_model_wrapper(module) == module.kind = "Wrapper"

get_module(module) ==
    IF is_model_wrapper(module) THEN module.module ELSE module

\* module[key]
GetItem(module, key) ==
    IF module.kind # "ModuleDict" THEN Raised("TypeError", NoMsg)
    ELSE IF key \notin DOMAIN module.items THEN Raised("KeyError", NoMsg)
    ELSE Returned(module.items[key], <<>>)

is_domain_reachable(domain) == domain \in Range(reachable_domains)

get_other_domains_reachable(domain) == Range(reachable_domains) \ {domain}
get_other_domains(domain) == Range(related_domains) \ {domain}

\* the message of the assert in _get_target_generator/_discriminator
NotReachable(domain) ==
    Raised("AssertionError",
           [domain |-> domain, available |-> reachable_domains])

get_target_generator_unguarded(domain) ==
    GetItem(get_module(generators), domain)
get_target_generator(domain) ==
    IF ~is_domain_reachable(domain) THEN NotReachable(domain)
    ELSE GetItem(get_module(generators), domain)

get_target_discriminator(domain) ==
    IF ~is_domain_reachable(domain) THEN NotReachable(domain)
    ELSE GetItem(get_module(discriminators), domain)

\* _model(image, **kwargs): the output of network m, on the input's device
ModuleCall(m, image, kwargs) ==
    [data |-> <<m, image.data, kwargs>>, device |-> image.device]
Invocation(m, image, kwargs) ==
    [module |-> m, image |-> image, kwargs |-> kwargs]

translation_default_only(image, target_domain, kwargs) ==
    LET _model == get_target_generator(default_domain)
    IN  IF _model.outcome # "ok" THEN _model
        ELSE Returned(ModuleCall(_model.value, image, kwargs),
                      <<Invocation(_model.value, image, kwargs)>>)
translation(image, target_domain, kwargs) ==
    LET td == IF target_domain = None THEN default_domain ELSE target_domain
        _model == get_target_generator(td)
    IN  IF _model.outcome # "ok" THEN _model
        ELSE Returned(ModuleCall(_model.value, image, kwargs),
                      <<Invocation(_model.value, image, kwargs)>>)

\* tensor.cpu()
Cpu(tensor) == [tensor EXCEPT !.device = "cpu"]

forward_train(img, target_domain, kwargs) ==
    LET target == translation(img, target_domain, kwargs)
    IN  IF target.outcome # "ok" THEN target
        ELSE Returned([source |-> img, target |-> target.value],
                      target.invoked)

forward_test_source_kept(img, target_domain, kwargs) ==
    LET target == translation(img, target_domain, kwargs)
    IN  IF target.outcome # "ok" THEN target
        ELSE Returned([source |-> img, target |-> Cpu(target.value)],
                      target.invoked)
forward_test(img, target_domain, kwargs) ==
    LET target == translation(img, target_domain, kwargs)
    IN  IF target.outcome # "ok" THEN target
        ELSE Returned([source |-> Cpu(img), target |-> Cpu(target.value)],
                      target.invoked)

forward(img, test_mode, target_domain, kwargs) ==
    IF ~test_mode THEN forward_train(img, target_domain, kwargs)
    ELSE forward_test(img, target_domain, kwargs)

\* a call, between init_weights calls, that only reads the model
Query(op, args, r) ==
    /\ constructed = "ok"
    /\ pc = "idle"
    /\ ret' = Call(op, args, r)
    /\ UNCHANGED <<constructed, default_domain, reachable_domains,
                   related_domains, generators, discriminators, built,
                   params_init_info, pc, idx>>
    /\ UNCHANGED evars

IsDomainReachable(domain) ==
    Query("is_domain_reachable", <<domain>>,
          Returned(is_domain_reachable(domain), <<>>))
GetOtherDomains(domain) ==
    Query("get_other_domains", <<domain>>,
          Returned(get_other_domains(domain), <<>>))
GetTargetGenerator(domain) ==
    Query("_get_target_generator", <<domain>>, get_target_generator(domain))
GetTargetDiscriminator(domain) ==
    Query("_get_target_discriminator", <<domain>>,
          get_target_discriminator(domain))
\* get_module(self.generators) / get_module(self.discriminators)
GetModule(name) ==
    Query("get_module", <<name>>,
          Returned(get_module(IF name = "generators" THEN generators
                              ELSE discriminators), <<>>))
Translation(image, target_domain, kwargs) ==
    Query("translation", <<image, target_domain, kwargs>>,
          translation(image, target_domain, kwargs))
Forward(img, test_mode, target_domain, kwargs) ==
    Query(IF test_mode THEN "forward_test" ELSE "forward_train",
          <<img, target_domain, kwargs>>,
          forward(img, test_mode, target_domain, kwargs))

\* the surrounding runner wraps the model's module collections for
\* distributed training: what is_model_wrapper then recognises
WrapChildren ==
    /\ constructed = "ok"
    /\ pc = "idle"
    /\ ~is_model_wrapper(generators)
    /\ generators' = Wrapper(generators)
    /\ discriminators' = IF discriminators.kind = "None" THEN discriminators
                         ELSE Wrapper(discriminators)
    /\ UNCHANGED <<constructed, default_domain, reachable_domains,
                   related_domains, built, params_init_info, pc, idx, ret>>
    /\ UNCHANGED evars

\* self.children(): the module collections the model holds
ChildrenOf(name, module) ==
    IF module.kind = "None" THEN {}
    ELSE IF module.kind = "Wrapper"
    THEN {Container(name), Container(name \o ".module")}
    ELSE {Container(name)}
\* the networks held in a (possibly wrapped) collection, and what they nest
NetworksOf(module) ==
    IF module.kind = "None" THEN {}
    ELSE LET items == get_module(module).items
         IN  UNION {{Instance(items[d]), Nested(items[d])} : d \in DOMAIN items}
ModulesDirectOnly ==
    {SelfModule} \cup ChildrenOf("generators", generators)
                 \cup ChildrenOf("discriminators", discriminators)
\* self.modules()
Modules ==
    {SelfModule} \cup ChildrenOf("generators", generators)
                 \cup ChildrenOf("discriminators", discriminators)
                 \cup NetworksOf(generators)
                 \cup NetworksOf(discriminators)

\* init_weights: self._params_init_info = defaultdict(dict), and its filling
InitWeightsBegin ==
    /\ constructed = "ok"
    /\ pc = "idle"
    /\ params_init_info' = params_init_info \cup {SelfModule}
    /\ idx' = 1
    /\ pc' = IF Len(reachable_domains) >= 1 THEN "gen" ELSE "dump"
    /\ ret' = Call("init_weights", <<>>, Raised("running", NoMsg))
    /\ UNCHANGED <<constructed, default_domain, reachable_domains,
                   related_domains, generators, discriminators, built>>
    /\ UNCHANGED evars

LoopNext(i) == IF i < Len(reachable_domains) THEN "gen" ELSE "dump"

\* init_weights: gen._params_init_info = ...; gen.init_weights()
\* gen.init_weights() may leave the map on what gen nests
InitWeightsGen ==
    /\ pc = "gen"
    /\ LET domain == reachable_domains[idx]
           gen == IF is_model_wrapper(generators)
                  THEN generators.module.items[domain]
                  ELSE generators.items[domain]
       IN  \E kept \in SUBSET {Nested(gen)} :
               params_init_info' = params_init_info \cup {Instance(gen)} \cup kept
    /\ IF discriminators.kind # "None"
       THEN pc' = "disc" /\ idx' = idx
       ELSE pc' = LoopNext(idx) /\ idx' = idx + 1
    /\ UNCHANGED <<constructed, default_domain, reachable_domains,
                   related_domains, generators, discriminators, built, ret>>
    /\ UNCHANGED evars

\* init_weights: disc._params_init_info = ...; disc.init_weights()
InitWeightsDisc ==
    /\ pc = "disc"
    /\ LET domain == reachable_domains[idx]
           disc == IF is_model_wrapper(discriminators)
                   THEN discriminators.module.items[domain]
                   ELSE discriminators.items[domain]
       IN  \E kept \in SUBSET {Nested(disc)} :
               params_init_info' = params_init_info \cup {Instance(disc)} \cup kept
    /\ pc' = LoopNext(idx)
    /\ idx' = idx + 1
    /\ UNCHANGED <<constructed, default_domain, reachable_domains,
                   related_domains, generators, discriminators, built, ret>>
    /\ UNCHANGED evars

\* init_weights: _dump_init_info(), then del m._params_init_info
InitWeightsEnd ==
    /\ pc = "dump"
    /\ params_init_info' = params_init_info \ Modules
    /\ pc' = "idle"
    /\ idx' = 0
    /\ ret' = Call("init_weights", <<>>, Returned(NoValue, <<>>))
    /\ UNCHANGED <<constructed, default_domain, reachable_domains,
                   related_domains, generators, discriminators, built>>
    /\ UNCHANGED evars

----------------------------------------------------------------------------
(* MMEdit *)

\* model_dict of get_model_config
model_dict ==
    [ biggan |->
        [type |-> "conditional",
         version |->
           [a |->
              [config |->
                 "biggan/dbnet_resnet18_fpnc_1200e_icdar2015.py",
               ckpt |->
                 "ckpt/conditional/biggan_cifar10_32x32_b25x2_500k_20210728_110906-08b61a44.pth"],
            b |->
              [config |->
                 "biggan/biggan_ajbrock-sn_8xb32-1500kiters_imagenet1k-128x128.py",
               ckpt |->
                 "ckpt/conditional/biggan_imagenet1k_128x128_b32x8_best_fid_iter_1232000_20211111_122548-5315b13d.pth"]]],
      styleganv1 |->
        [type |-> "unconditional",
         version |->
           [a |->
              [config |->
                 "styleganv1/styleganv1_ffhq-256x256_8xb4-25Mimgs.py",
               ckpt |->
                 "ckpt/unconditional/styleganv1_ffhq_256_g8_25Mimg_20210407_161748-0094da86.pth"]]],
      gca |->
        [type |-> "matting",
         version |->
           [a |->
              [config |->
                 "gca/gca_r34_4xb10-200k_comp1k.py",
               ckpt |->
                 "ckpt/matting/gca/gca_r34_4x10_200k_comp1k_SAD-33.38_20220615-65595f39.pth"]]],
      aot_gan |->
        [type |-> "inpainting",
         version |->
           [a |->
              [config |->
                 "aot_gan/aot-gan_smpgan_4xb4_places-512x512.py",
               ckpt |->
                 "ckpt/inpainting/AOT-GAN_512x512_4x12_places_20220509-6641441b.pth"]]],
      pix2pix |->
        [type |-> "translation",
         version |->
           [a |->
              [config |->
                 "pix2pix/pix2pix_vanilla-unet-bn_1xb1-80kiters_facades.py",
               ckpt |->
                 "ckpt/translation/pix2pix_vanilla_unet_bn_1x1_80k_facades_20210902_170442-c0958d50.pth"]]],
      real_esrgan |->
        [type |-> "restoration",
         version |->
           [a |->
              [config |->
                 "real_esrgan/realesrnet_c64b23g32_4xb12-lr2e-4-1000k_df2k-ost.py",
               ckpt |->
                 "ckpt/restoration/realesrnet_c64b23g32_12x4_lr2e-4_1000k_df2k_ost_20210816-4ae3b5a4.pth"]]],
      esrgan |->
        [type |-> "restoration",
         version |->
           [a |->
              [config |->
                 "esrgan/esrgan_psnr-x4c64b23g32_1xb16-1000k_div2k.py",
               ckpt |->
                 "ckpt/restoration/esrgan_psnr_x4c64b23g32_1x16_1000k_div2k_20200420-bf5c993c.pth"]]],
      basicvsr |->
        [type |-> "video_restoration",
         version |->
           [a |->
              [config |->
                 "basicvsr/basicvsr_2xb4_vimeo90k-bi.py",
               ckpt |->
                 ""],
            b |->
              [config |->
                 "basicvsr/basicvsr_2xb4_reds4.py",
               ckpt |->
                 "ckpt/video_restoration/basicvsr_reds4_20120409-0e599677.pth"]]],
      flavr |->
        [type |-> "video_interpolation",
         version |->
           [a |->
              [config |->
                 "flavr/flavr_in4out1_8xb4_vimeo90k-septuplet.py",
               ckpt |->
                 "ckpt/video_interpolation/flavr_in4out1_g8b4_vimeo90k_septuplet_20220509-c2468995.pth"]]] ]

\* the arguments callers hand to MMEdit(...)
Omitted == "<omitted>"
ModelNames == DOMAIN model_dict \cup {"nonexistent_model", None}
ModelVersions == {"a", "b"}
ModelConfigs == {None, "custom.py", "c.py"}
ModelCkpts == {None, "k.pth"}

Default(arg, default) == IF arg = Omitted THEN default ELSE arg

\* what a call hands back: a value and the warnings it emitted, or an error
EReturned(value, warnings) ==
    [outcome |-> "ok", value |-> value, msg |-> "", warnings |-> warnings]
ERaised(kind, msg) ==
    [outcome |-> kind, value |-> NoValue, msg |-> msg, warnings |-> <<>>]
ECall(op, args, r) ==
    [op |-> op, args |-> args, outcome |-> r.outcome, value |-> r.value,
     msg |-> r.msg, warnings |-> r.warnings]
UserWarning(text) == [category |-> "UserWarning", text |-> text]
NoInferencer == [device |-> None, kwargs |-> <<>>]

get_model_config(model_name) ==
    IF model_name \notin DOMAIN model_dict
    THEN ERaised("ValueError", "Model " \o model_name \o " is not supported.")
    ELSE EReturned(model_dict[model_name], <<>>)

\* os.path.join('configs/', path): every path of model_dict is relative and
\* the directory ends with its separator
join(path) == "configs/" \o path

\* d[key] = value
SetItem(d, key, value) == (key :> value) @@ d

\* _get_inferencer_kwargs, `if model is not None:`
FromModelVersionA(model, model_version) ==
    LET cfgs == get_model_config(model)
    IN  IF cfgs.outcome # "ok" THEN cfgs
        ELSE EReturned(
                 SetItem(SetItem(SetItem(<<>>,
                     "type", cfgs.value.type),
                     "config", join(cfgs.value.version["a"].config)),
                     "ckpt", cfgs.value.version["a"].ckpt),
                 <<>>)
FromModel(model, model_version) ==
    LET cfgs == get_model_config(model)
    IN  IF cfgs.outcome # "ok" THEN cfgs
        ELSE IF model_version \notin DOMAIN cfgs.value.version
        THEN ERaised("KeyError", model_version)
        ELSE EReturned(
                 SetItem(SetItem(SetItem(<<>>,
                     "type", cfgs.value.type),
                     "config", join(cfgs.value.version[model_version].config)),
                     "ckpt", cfgs.value.version[model_version].ckpt),
                 <<>>)

\* kwargs.get(key, None) is not None
IsSet(kwargs, key) == key \in DOMAIN kwargs /\ kwargs[key] # None

\* _get_inferencer_kwargs, `if config is not None:` and `if ckpt is not None:`
OverrideAlwaysWarns(r, key, what, model, explicit) ==
    IF explicit = None THEN r
    ELSE EReturned(
             SetItem(r.value, key, explicit),
             Append(r.warnings,
                    UserWarning(model \o "'s default " \o what
                                \o " is overridden by " \o explicit)))
OverrideUnguarded(r, key, what, model, explicit) ==
    EReturned(
        SetItem(r.value, key, explicit),
        IF IsSet(r.value, key) /\ explicit # None
        THEN Append(r.warnings,
                    UserWarning(model \o "'s default " \o what
                                \o " is overridden by " \o explicit))
        ELSE r.warnings)
Override(r, key, what, model, explicit) ==
    IF explicit = None THEN r
    ELSE EReturned(
             SetItem(r.value, key, explicit),
             IF IsSet(r.value, key)
             THEN Append(r.warnings,
                         UserWarning(model \o "'s default " \o what
                                     \o " is overridden by " \o explicit))
             ELSE r.warnings)

get_inferencer_kwargs_overrides_first(model, model_version, config, ckpt) ==
    LET step1 == IF model # None /\ (config = None \/ ckpt = None)
                 THEN FromModel(model, model_version)
                 ELSE EReturned(<<>>, <<>>)
    IN  IF step1.outcome # "ok" THEN step1
        ELSE Override(Override(step1, "config", "config", model, config),
                      "ckpt", "checkpoint", model, ckpt)
get_inferencer_kwargs(model, model_version, config, ckpt) ==
    LET step1 == IF model # None
                 THEN FromModel(model, model_version)
                 ELSE EReturned(<<>>, <<>>)
    IN  IF step1.outcome # "ok" THEN step1
        ELSE Override(Override(step1, "config", "config", model, config),
                      "ckpt", "checkpoint", model, ckpt)

\* MMEdit(model_name, model_version, model_config, model_ckpt)
MMEditInit(model_name, model_version, model_config, model_ckpt) ==
    LET version == Default(model_version, "a")
        r == get_inferencer_kwargs(model_name, version, model_config,
                                   model_ckpt)
    IN  /\ eret' = ECall("__init__",
                         [model_name |-> model_name,
                          model_version |-> model_version,
                          model_config |-> model_config,
                          model_ckpt |-> model_ckpt], r)
        /\ inferencer' = IF r.outcome = "ok"
                         THEN [device |-> "cuda", kwargs |-> r.value]
                         ELSE NoInferencer
        /\ UNCHANGED tvars

TInit ==
    /\ constructed = "none"
    /\ default_domain = None
    /\ reachable_domains = <<>>
    /\ related_domains = <<>>
    /\ generators = NoneModule
    /\ discriminators = NoneModule
    /\ built = <<>>
    /\ params_init_info = {}
    /\ pc = "idle"
    /\ idx = 0
    /\ ret = NoCall

EInit ==
    /\ inferencer = NoInferencer
    /\ eret = ECall("none", <<>>, EReturned(NoValue, <<>>))

Init == TInit /\ EInit

Next ==
    \/ \E discriminator \in {None, DiscCfg}, dd \in DomainNames,
          reach, rel \in SeqsUpTo(ListDomains, MaxLen) :
            Construct(discriminator, dd, reach, rel)
    \/ \E domain \in DomainNames : IsDomainReachable(domain)
    \/ \E domain \in DomainNames : GetOtherDomains(domain)
    \/ \E domain \in DomainNames : GetTargetGenerator(domain)
    \/ \E domain \in DomainNames : GetTargetDiscriminator(domain)
    \/ \E name \in {"generators", "discriminators"} : GetModule(name)
    \/ \E image \in Images, target_domain \in DomainNames \cup {None},
          kwargs \in Kwargs :
            Translation(image, target_domain, kwargs)
    \/ \E image \in Images, target_domain \in DomainNames \cup {None},
          kwargs \in Kwargs, test_mode \in BOOLEAN :
            Forward(image, test_mode, target_domain, kwargs)
    \/ WrapChildren
    \/ InitWeightsBegin
    \/ InitWeightsGen
    \/ InitWeightsDisc
    \/ InitWeightsEnd

Spec == Init /\ [][Next]_vars

ENext ==
    \E model_name \in ModelNames, model_version \in ModelVersions \cup {Omitted},
       model_config \in ModelConfigs, model_ckpt \in ModelCkpts :
        MMEditInit(model_name, model_version, model_config, model_ckpt)

SpecEdit == Init /\ [][ENext]_vars

----------------------------------------------------------------------------
(* Properties of BaseTranslationModel, checked under Spec *)

\* the items of a module collection, wrapped or not
ItemsOf(module) ==
    IF module.kind = "Wrapper" THEN module.module.items ELSE module.items
Unreachable(domain) == domain \notin Range(reachable_domains)

\* C1: construction succeeds only if default_domain is in reachable_domains
\* and reachable_domains is contained in related_domains; for every other
\* triple it fails, leaves no generators or discriminators, and has asked
\* the registry to build nothing.
C1_ConstructionPrecondition ==
    /\ constructed = "ok" =>
          /\ default_domain \in Range(reachable_domains)
          /\ Range(reachable_domains) \subseteq Range(related_domains)
    /\ constructed = "failed" =>
          /\ \/ default_domain \notin Range(reachable_domains)
             \/ ~(Range(reachable_domains) \subseteq Range(related_domains))
          /\ built = <<>>
          /\ generators.kind = "None"
          /\ discriminators.kind = "None"
C1_Witness ==
    /\ constructed = "failed"
    /\ default_domain = "B"
    /\ reachable_domains = <<"A">>
    /\ related_domains = <<"A", "B">>

\* C2: translation with no target domain, or with a reachable target domain,
\* calls exactly one network: the generator stored for default_domain,
\* respectively for the target domain, with the image and the extra
\* arguments, and returns that generator's output.
C2_TranslationUsesTargetGenerator ==
    (/\ ret.op = "translation"
     /\ ret.args[2] = None \/ ret.args[2] \in Range(reachable_domains)) =>
        LET image == ret.args[1]
            kwargs == ret.args[3]
            td == IF ret.args[2] = None THEN default_domain ELSE ret.args[2]
            g == ItemsOf(generators)[td]
        IN  /\ ret.outcome = "ok"
            /\ built[g] = GenCfg
            /\ ret.invoked =
                   <<[module |-> g, image |-> image, kwargs |-> kwargs]>>
            /\ ret.value = ModuleCall(g, image, kwargs)
C2_Witness ==
    /\ ret.op = "translation"
    /\ ret.outcome = "ok"
    /\ default_domain = "A"
    /\ ret.args[2] = "B"
    /\ ret.args[3] = "kw1"
    /\ discriminators.kind # "None"
    /\ Len(ret.invoked) = 1

\* C3: _get_target_generator(d) returns a network exactly when
\* is_domain_reachable(d), which is membership in reachable_domains; for an
\* unreachable d, _get_target_generator, _get_target_discriminator and
\* translation fail with the assertion that names d and the whole
\* reachable_domains list, and no network is called.
C3_UnreachableDomainRejected ==
    /\ constructed = "ok" =>
          \A d \in DomainNames :
              /\ get_target_generator(d).outcome = "ok"
                     <=> is_domain_reachable(d)
              /\ get_target_generator(d).outcome = "ok"
                     <=> d \in Range(reachable_domains)
    /\ ret.op = "is_domain_reachable" =>
          ret.value = (ret.args[1] \in Range(reachable_domains))
    /\ (ret.op = "_get_target_generator" /\ ~Unreachable(ret.args[1])) =>
          /\ ret.outcome = "ok"
          /\ ret.value = ItemsOf(generators)[ret.args[1]]
    /\ (/\ ret.op \in {"_get_target_generator", "_get_target_discriminator"}
        /\ Unreachable(ret.args[1])) =>
          /\ ret.outcome = "AssertionError"
          /\ ret.msg = [domain |-> ret.args[1],
                        available |-> reachable_domains]
          /\ ret.invoked = <<>>
    /\ (/\ ret.op = "translation"
        /\ ret.args[2] # None
        /\ Unreachable(ret.args[2])) =>
          /\ ret.outcome = "AssertionError"
          /\ ret.msg = [domain |-> ret.args[2],
                        available |-> reachable_domains]
          /\ ret.invoked = <<>>
C3_Witness ==
    /\ ret.op = "translation"
    /\ ret.args[2] = "B"
    /\ reachable_domains = <<"A">>
    /\ "B" \in Range(related_domains)
    /\ ret.outcome = "AssertionError"

\* C8: between init_weights calls (none is running) no module of the model
\* has the attribute _params_init_info: not the model, not a module
\* collection, not a generator or discriminator, not what they nest.
C8_NoTrackingMapBetweenCalls ==
    pc = "idle" => params_init_info = {}
C8_Witness ==
    /\ ret.op = "init_weights"
    /\ ret.outcome = "ok"
    /\ pc = "idle"
    /\ is_model_wrapper(generators)
    /\ discriminators.kind = "Wrapper"
    /\ Cardinality(Range(reachable_domains)) = 2

\* C9: for the same image, target domain and extra arguments, forward_train
\* and forward_test fail alike or both return the fields source and target,
\* calling the same network; forward_train returns the image itself and
\* translation's output, forward_test returns the two moved to the cpu and
\* otherwise the same.
C9_TrainTestDifferInPlacement ==
    ret.op \in {"forward_train", "forward_test"} =>
        LET img == ret.args[1]
            td == ret.args[2]
            kwargs == ret.args[3]
            train == IF ret.op = "forward_train" THEN ret
                     ELSE forward_train(img, td, kwargs)
            test == IF ret.op = "forward_test" THEN ret
                    ELSE forward_test(img, td, kwargs)
            target == translation(img, td, kwargs)
        IN  /\ train.outcome = target.outcome
            /\ test.outcome = target.outcome
            /\ train.msg = test.msg
            /\ train.invoked = test.invoked
            /\ target.outcome = "ok" =>
                  /\ DOMAIN train.value = {"source", "target"}
                  /\ DOMAIN test.value = {"source", "target"}
                  /\ train.value.source = img
                  /\ train.value.target = target.value
                  /\ test.value.source.device = "cpu"
                  /\ test.value.target.device = "cpu"
                  /\ test.value.source.data = train.value.source.data
                  /\ test.value.target.data = train.value.target.data
C9_Witness ==
    /\ ret.op = "forward_test"
    /\ ret.outcome = "ok"
    /\ ret.args[1].device = "cuda"
    /\ ret.value.source.device = "cpu"
    /\ ret.value.target.device = "cpu"

\* C10: every get_other_domains(d) call returns the set of related_domains
\* without d, which is all of related_domains when d is not among them; it
\* does not fail, and no call on a constructed model, this one included,
\* changes related_domains or reachable_domains.
C10_OtherDomains ==
    /\ [](ret.op = "get_other_domains" =>
             /\ ret.outcome = "ok"
             /\ ret.value = Range(related_domains) \ {ret.args[1]}
             /\ ret.args[1] \notin Range(related_domains) =>
                    ret.value = Range(related_domains))
    /\ [][constructed = "ok" =>
             /\ related_domains' = related_domains
             /\ reachable_domains' = reachable_domains
         ]_<<related_domains, reachable_domains>>
C10_Witness ==
    /\ ret.op = "get_other_domains"
    /\ ret.outcome = "ok"
    /\ ret.args[1] = "B"
    /\ related_domains = <<"A", "A">>
    /\ ret.value = {"A"}

\* the keys of a module collection, and whether each holds another instance
KeysOf(module) == DOMAIN ItemsOf(module)
OwnInstances(module, cfg) ==
    /\ \A d \in KeysOf(module) :
           /\ ItemsOf(module)[d] \in DOMAIN built
           /\ built[ItemsOf(module)[d]] = cfg
    /\ \A d, e \in KeysOf(module) :
           ItemsOf(module)[d] = ItemsOf(module)[e] => d = e

\* C11: on a constructed model the generators have exactly the reachable
\* domains as keys, each holding the instance of a registry call of its
\* own; the discriminators are None when no discriminator config was
\* given and otherwise have the same keys, again one instance of its own
\* each; the registry was called once per list entry and collection.  No
\* call on the constructed model changes the key sets or whether the
\* discriminators are None.
C11_DomainKeyedCollections ==
    /\ [](constructed = "ok" =>
             /\ KeysOf(generators) = Range(reachable_domains)
             /\ OwnInstances(generators, GenCfg)
             /\ discriminators.kind = "None" <=> DiscCfg \notin Range(built)
             /\ discriminators.kind = "None" =>
                    Len(built) = Len(reachable_domains)
             /\ discriminators.kind # "None" =>
                    /\ KeysOf(discriminators) = Range(reachable_domains)
                    /\ KeysOf(discriminators) # {}
                    /\ OwnInstances(discriminators, DiscCfg)
                    /\ Len(built) = 2 * Len(reachable_domains))
    /\ [][constructed = "ok" =>
             /\ KeysOf(generators') = KeysOf(generators)
             /\ (discriminators'.kind = "None")
                    <=> (discriminators.kind = "None")
             /\ discriminators.kind # "None" =>
                    KeysOf(discriminators') = KeysOf(discriminators)
         ]_<<generators, discriminators>>
C11_Witness ==
    /\ constructed = "ok"
    /\ ret.op = "init_weights"
    /\ ret.outcome = "ok"
    /\ pc = "idle"
    /\ reachable_domains = <<"A", "B">>
    /\ KeysOf(generators) = {"A", "B"}
    /\ ItemsOf(generators)["A"] # ItemsOf(generators)["B"]
    /\ discriminators.kind = "None"
    /\ is_model_wrapper(generators)

----------------------------------------------------------------------------
(* Properties of MMEdit, checked under SpecEdit *)

GivenVersion == Default(eret.args.model_version, "a")
\* the named model is in the catalog and has the version asked for
ModelResolves ==
    /\ eret.args.model_name \in DOMAIN model_dict
    /\ GivenVersion \in DOMAIN model_dict[eret.args.model_name].version

\* C4: for a model of the catalog and a version it has ("a" when none is
\* given), without explicit config or checkpoint, the kwargs are the
\* entry's type, the version's config under "configs/" and the version's
\* checkpoint.
C4_CatalogResolution ==
    (/\ eret.op = "__init__"
     /\ ModelResolves
     /\ eret.args.model_config = None
     /\ eret.args.model_ckpt = None) =>
        LET entry == model_dict[eret.args.model_name]
            version == entry.version[GivenVersion]
        IN  /\ eret.outcome = "ok"
            /\ eret.value = [type |-> entry.type,
                             config |-> "configs/" \o version.config,
                             ckpt |-> version.ckpt]
            /\ inferencer.kwargs = eret.value
            /\ eret.args.model_name = "pix2pix" =>
                  eret.value =
                      [type |-> "translation",
                       config |->
                         "configs/pix2pix/pix2pix_vanilla-unet-bn_1xb1-80kiters_facades.py",
                       ckpt |->
                         "ckpt/translation/pix2pix_vanilla_unet_bn_1x1_80k_facades_20210902_170442-c0958d50.pth"]
C4_Witness ==
    /\ eret.op = "__init__"
    /\ eret.args = [model_name |-> "biggan", model_version |-> "b",
                    model_config |-> None, model_ckpt |-> None]
    /\ eret.outcome = "ok"
    /\ eret.value.type = "conditional"

\* C5: a model name that is given and is not in the catalog makes the call
\* fail with the ValueError that names it, with or without explicit config
\* and checkpoint; nothing is returned and no inferencer is constructed.
C5_UnsupportedModel ==
    (/\ eret.op = "__init__"
     /\ eret.args.model_name # None
     /\ eret.args.model_name \notin DOMAIN model_dict) =>
        /\ eret.outcome = "ValueError"
        /\ eret.msg = "Model " \o eret.args.model_name \o " is not supported."
        /\ eret.value = NoValue
        /\ eret.warnings = <<>>
        /\ inferencer = NoInferencer
C5_Witness ==
    /\ eret.op = "__init__"
    /\ eret.args.model_name = "nonexistent_model"
    /\ eret.args.model_config = "custom.py"
    /\ eret.args.model_ckpt = "k.pth"
    /\ eret.outcome = "ValueError"

\* C6: the call warns about the config exactly when an explicit config is
\* given and the named model had set one, and likewise and independently
\* about the checkpoint; the warning names the model and the explicit
\* value, the call still returns, and the field holds the explicit value.
\* Without a model name, or without an explicit value, there is no warning.
C6_OverrideWarning ==
    (/\ eret.op = "__init__"
     /\ eret.args.model_name = None \/ ModelResolves) =>
        LET model == eret.args.model_name
            config == eret.args.model_config
            ckpt == eret.args.model_ckpt
        IN  /\ eret.outcome = "ok"
            /\ eret.warnings =
                  (IF model # None /\ config # None
                   THEN <<UserWarning(model
                              \o "'s default config is overridden by "
                              \o config)>>
                   ELSE <<>>)
                  \o
                  (IF model # None /\ ckpt # None
                   THEN <<UserWarning(model
                              \o "'s default checkpoint is overridden by "
                              \o ckpt)>>
                   ELSE <<>>)
            /\ config # None => eret.value["config"] = config
            /\ ckpt # None => eret.value["ckpt"] = ckpt
C6_Witness ==
    /\ eret.op = "__init__"
    /\ eret.args.model_name = "pix2pix"
    /\ eret.args.model_config = "custom.py"
    /\ eret.args.model_ckpt = None
    /\ eret.outcome = "ok"
    /\ Len(eret.warnings) = 1
    /\ eret.value["config"] = "custom.py"

====
